---- MODULE Spec2Model ----
(***************************************************************************)
(* Model of the schedulebot frontend: the MonitoringDashboard component    *)
(* (refresh cycles, delete / resolve handlers) and the SchedulingInterface *)
(* component (CSV bulk upload).  JavaScript is single-threaded: every      *)
(* action below is one run-to-completion turn of the event loop, i.e. the  *)
(* synchronous prefix of a handler up to its await, or the continuation    *)
(* that runs when the awaited call settles.                                *)
(***************************************************************************)
EXTENDS Integers, Sequences, FiniteSets, TLC

VARIABLES
    \* ---- MonitoringDashboard (src/unnamed/part_001, lines 38-104) ----
    session,                  \* "created" | "mounted" | "unmounted"
    activeConversations,      \* useState<ActiveConversation[]>([])
    completedConversations,   \* useState<ActiveConversation[]>([])
    scheduledInterviews,      \* useState<ScheduledInterview[]>([])
    attentionFlags,           \* useState<AttentionFlag[]>([])
    isLoading,                \* useState(true)
    error,                    \* useState<string | null>(null)
    deleteStatus,             \* useState<{[key: string]: ...}>({})
    resolveStatus,            \* useState<{[key: string]: ...}>({})
    cycles,                   \* fetchData invocations suspended at the await, in start order
    deleteCalls,              \* deleteConversation calls in flight, per conversation id
    resolveCalls,             \* resolveAttentionFlag calls in flight, per flag id
    lastCall,                 \* history: the delete / resolve call that settled in the last step
    lastFetch,                \* history: what the fetchData continuation that ran in the last step received
    \* ---- SchedulingInterface (src/frontend/src/components/SchedulingInterface.tsx) ----
    file,                     \* useState<File | null>(null)
    dragActive,               \* useState(false)
    submissionStatus,         \* useState<'idle'|'submitting'|'success'|'error'>('idle')
    errorMessage,             \* useState('')
    uploads,                  \* axios.post('/upload-csv') calls in flight (the file each carries)
    lastSubmit                \* history: the handler that ran in the last step, and what it alerted

dashVars == <<session, activeConversations, completedConversations, scheduledInterviews,
              attentionFlags, isLoading, error, deleteStatus, resolveStatus, cycles,
              deleteCalls, resolveCalls, lastCall, lastFetch>>

uploadVars == <<file, dragActive, submissionStatus, errorMessage, uploads, lastSubmit>>

vars == <<dashVars, uploadVars>>

(***************************************************************************)
(* Bounds of the model.                                                    *)
(***************************************************************************)
\* fetchData invocations that may be outstanding at the same time
MaxCycles == 2
\* upload calls that may be outstanding at the same time
MaxUploads == 2
\* length of the flags responses the validation gate is tried on
MaxRecords == 2

(***************************************************************************)
(* JavaScript values.  A value carries its `typeof` and a printed payload. *)
(***************************************************************************)
Str(s) == [t |-> "string", v |-> s]
Num(s) == [t |-> "number", v |-> s]
Bool(b) == [t |-> "boolean", v |-> IF b THEN "true" ELSE "false"]
Undefined == [t |-> "undefined", v |-> ""]

typeof(x) == x.t

null == "null"

\* A raw record as it arrives in the JSON body of GET /attention-flags.
\* kind is the typeof of the record itself; isNull tells the JSON null.
RawObject(id, conversation_id, message, severity, created_at, resolved) ==
    [t |-> "object", isNull |-> FALSE,
     id |-> id, conversation_id |-> conversation_id, message |-> message,
     severity |-> severity, created_at |-> created_at, resolved |-> resolved]

RawNull ==
    [t |-> "object", isNull |-> TRUE,
     id |-> Undefined, conversation_id |-> Undefined, message |-> Undefined,
     severity |-> Undefined, created_at |-> Undefined, resolved |-> Undefined]

RawString ==
    [t |-> "string", isNull |-> FALSE,
     id |-> Undefined, conversation_id |-> Undefined, message |-> Undefined,
     severity |-> Undefined, created_at |-> Undefined, resolved |-> Undefined]

\* Identifiers.  "f7" is both a conversation id and a flag id.
ConvIds == {"c1", "f7"}
FlagIds == {"f7"}

F7 == RawObject(Str("f7"), Str("c1"), Str("no reply"), Str("high"), Str("2024-01-01"), Bool(FALSE))
F7Resolved == RawObject(Str("f7"), Str("c1"), Str("no reply"), Str("high"), Str("2024-01-01"), Bool(TRUE))
BadSeverity == RawObject(Str("f7"), Str("c1"), Str("no reply"), Str("critical"), Str("2024-01-01"), Bool(FALSE))
NumericSeverity == RawObject(Str("f7"), Str("c1"), Str("no reply"), Num("3"), Str("2024-01-01"), Bool(FALSE))
NumericId == RawObject(Num("7"), Str("c1"), Str("no reply"), Str("medium"), Str("2024-01-01"), Bool(FALSE))
NoConversation == RawObject(Str("f7"), Undefined, Str("no reply"), Str("medium"), Str("2024-01-01"), Bool(FALSE))
NoMessage == RawObject(Str("f7"), Str("c1"), Undefined, Str("high"), Str("2024-01-01"), Bool(FALSE))
NumericDate == RawObject(Str("f7"), Str("c1"), Str("no reply"), Str("low"), Num("1704067200"), Bool(FALSE))
NoResolved == RawObject(Str("f7"), Str("c1"), Str("no reply"), Str("low"), Str("2024-01-01"), Undefined)
StringResolved == RawObject(Str("f7"), Str("c1"), Str("no reply"), Str("low"), Str("2024-01-01"), Str("false"))

\* The body of a list response as JavaScript sees it: an array, or something else
\* (an object, null) that has no filter method.
Array(items) == [isArray |-> TRUE, items |-> items]
NotAnArray == [isArray |-> FALSE, items |-> <<>>]

\* ActiveConversation records: the id and the nested attention_flags are what the
\* handlers and the controls read.
Conv(id, flags) == [id |-> id, attention_flags |-> flags]

ActivePayloads ==
    { <<Conv("c1", <<>>), Conv("f7", <<>>), Conv("c1", <<F7>>)>> }

CompletedPayloads ==
    { <<Conv("f7", <<>>), Conv("c1", <<>>)>> }

ScheduledPayloads ==
    { <<[id |-> "s1"]>> }

FlagPayloads ==
    { Array(<<BadSeverity, F7, RawNull, F7Resolved>>),
      Array(<<NumericId, RawNull, RawString>>),
      NotAnArray }

\* What one list call ends with: a 2xx response carrying data, or a failure
\* (network error, timeout, non-2xx).
Ok(data) == [ok |-> TRUE, data |-> data]
Failure == [ok |-> FALSE, data |-> <<>>]

Outcomes(payloads) == {Ok(p) : p \in payloads} \cup {Failure}

(***************************************************************************)
(* Values of the SchedulingInterface.  A file name is a sequence of        *)
(* characters, so that endsWith is computed and not assumed.               *)
(***************************************************************************)
File(name) == [isNull |-> FALSE, name |-> name]
NoFile == [isNull |-> TRUE, name |-> <<>>]

DotCsv == <<".", "c", "s", "v">>

FileNames ==
    { <<"a", ".", "c", "s", "v">>,
      <<".", "c", "s", "v">>,
      <<"a", ".", "t", "x", "t">>,
      <<"a", ".", "C", "S", "V">>,
      <<"a", ".", "c", "s", "v", "x">>,
      <<"c", "s", "v">> }

Files == {File(n) : n \in FileNames}

\* One row of UploadResponse.results; error is optional.
Row(status, err) == [status |-> status, error |-> err]

UploadResponse(created, failed, results) ==
    [conversations_created |-> created, conversations_failed |-> failed, results |-> results]

UploadResponses ==
    { UploadResponse(2, 0, <<Row("success", Undefined), Row("success", Undefined)>>),
      UploadResponse(2, 1, <<Row("success", Str("stale")), Row("failed", Str("bad email")),
                             Row("success", Undefined)>>),
      UploadResponse(0, 3, <<Row("failed", Str("bad email")), Row("failed", Undefined),
                             Row("failed", Str(""))>>),
      UploadResponse(1, 0, <<Row("success", Undefined), Row("failed", Str("bad phone"))>>),
      UploadResponse(1, 1, <<Row("success", Undefined)>>) }

\* An AxiosError: error.response?.data?.error (undefined when there is no response
\* or the body has no error field) and error.message.
AxiosError(dataError, message) == [dataError |-> dataError, message |-> message]

UploadErrors ==
    { AxiosError(Str("Invalid CSV format"), "Request failed with status code 400"),
      AxiosError(Undefined, "Request failed with status code 500"),
      AxiosError(Undefined, "Network Error") }

NoResponse == UploadResponse(0, 0, <<>>)

NoEvent == [op |-> "none", alert |-> "", offered |-> NoFile, data |-> NoResponse]
Event(op, alert) == [op |-> op, alert |-> alert, offered |-> NoFile, data |-> NoResponse]
Offered(op, offeredFile) ==
    [op |-> op, alert |-> "", offered |-> offeredFile, data |-> NoResponse]
Responded(data, alert) ==
    [op |-> "response", alert |-> alert, offered |-> NoFile, data |-> data]

(***************************************************************************)
(* Services (src/frontend/src/services/api.ts).  The four list calls catch *)
(* every failure and return [] instead; delete and resolve rethrow.        *)
(***************************************************************************)
getActiveConversations(outcome) == IF outcome.ok THEN outcome.data ELSE <<>>

getCompletedConversations(outcome) == IF outcome.ok THEN outcome.data ELSE <<>>

getScheduledInterviews(outcome) == IF outcome.ok THEN outcome.data ELSE <<>>

getAttentionFlags(outcome) == IF outcome.ok THEN outcome.data ELSE Array(<<>>)

(***************************************************************************)
(* MonitoringDashboard.                                                    *)
(***************************************************************************)
\* the type guard without its check of the severity enumeration
isValidAttentionFlag_AnySeverity(flag) ==
    IF typeof(flag) # "object" \/ flag.isNull
    THEN FALSE
    ELSE /\ typeof(flag.id) = "string"
         /\ typeof(flag.conversation_id) = "string"
         /\ typeof(flag.message) = "string"
         /\ typeof(flag.severity) = "string"
         /\ typeof(flag.created_at) = "string"
         /\ typeof(flag.resolved) = "boolean"

isValidAttentionFlag(flag) ==
    IF typeof(flag) # "object" \/ flag.isNull
    THEN FALSE
    ELSE /\ typeof(flag.id) = "string"
         /\ typeof(flag.conversation_id) = "string"
         /\ typeof(flag.message) = "string"
         /\ typeof(flag.severity) = "string"
         /\ flag.severity.v \in {"low", "medium", "high"}
         /\ typeof(flag.created_at) = "string"
         /\ typeof(flag.resolved) = "boolean"

\* flags.filter(isValidAttentionFlag), for flags an array
FilterFlags(items) == SelectSeq(items, isValidAttentionFlag)

\* the update without the spread of prev: ({ [key]: value })
SetStatus_NoSpread(prev, key, value) == [k \in {key} |-> value]

\* prev => ({ ...prev, [key]: value })
SetStatus(prev, key, value) ==
    [k \in DOMAIN prev \cup {key} |-> IF k = key THEN value ELSE prev[k]]

\* status[key], undefined when the key is absent
StatusOf(status, key) == IF key \in DOMAIN status THEN status[key] ELSE "undefined"

\* removal of the first conversation with the id only (findIndex and splice)
WithoutConversation_FirstOnly(prev, conversationId) ==
    LET hits == {j \in 1..Len(prev) : prev[j].id = conversationId}
        first == CHOOSE j \in hits : \A n \in hits : j <= n
    IN  IF hits = {} THEN prev
        ELSE [j \in 1..(Len(prev) - 1) |-> IF j < first THEN prev[j] ELSE prev[j + 1]]

\* prev => prev.filter(conv => conv.id !== conversationId)
WithoutConversation(prev, conversationId) ==
    LET Keep(conv) == conv.id # conversationId
    IN  SelectSeq(prev, Keep)

FetchErrorMessage == "Failed to fetch monitoring data. Please try again later."

NoFetch == [done |-> FALSE, active |-> Failure, completed |-> Failure,
            flags |-> Failure, scheduled |-> Failure, overtaken |-> FALSE, raced |-> {}]

NoCall == [op |-> "none", id |-> "", ok |-> FALSE]
Call(op, id, ok) == [op |-> op, id |-> id, ok |-> ok]

\* The fetchData run that completed in the last step: the outcomes of its four
\* list calls, whether a run started after it completed before it, and the
\* conversation whose delete succeeded in the step before (while this run was
\* suspended at its await).
Fetched(cycle, previous, oActive, oCompleted, oFlags, oScheduled) ==
    [done |-> TRUE, active |-> oActive, completed |-> oCompleted, flags |-> oFlags,
     scheduled |-> oScheduled, overtaken |-> cycle.overtaken,
     raced |-> IF previous.op = "delete" /\ previous.ok THEN {previous.id} ELSE {}]

NoStatus == [k \in {} |-> "undefined"]

Init ==
    /\ session = "created"
    /\ activeConversations = <<>>
    /\ completedConversations = <<>>
    /\ scheduledInterviews = <<>>
    /\ attentionFlags = <<>>
    /\ isLoading = TRUE
    /\ error = null
    /\ deleteStatus = NoStatus
    /\ resolveStatus = NoStatus
    /\ cycles = <<>>
    /\ deleteCalls = [c \in ConvIds |-> 0]
    /\ resolveCalls = [f \in FlagIds |-> 0]
    /\ lastCall = NoCall
    /\ lastFetch = NoFetch
    /\ file = NoFile
    /\ dragActive = FALSE
    /\ submissionStatus = "idle"
    /\ errorMessage = ""
    /\ uploads = <<>>
    /\ lastSubmit = NoEvent

\* fetchData that does not call setError(null) when it starts
FetchDataStart_KeepsError ==
    /\ Len(cycles) < MaxCycles
    /\ isLoading' = TRUE
    /\ error' = error
    /\ cycles' = Append(cycles, [overtaken |-> FALSE])

\* fetchData that returns at once while an earlier run is suspended at its await
FetchDataStart_Serialized ==
    /\ cycles = <<>>
    /\ isLoading' = TRUE
    /\ error' = null
    /\ cycles' = <<[overtaken |-> FALSE]>>

\* fetchData up to its await: lines 56-64.  The four list calls are issued.
FetchDataStart ==
    /\ Len(cycles) < MaxCycles
    /\ isLoading' = TRUE
    /\ error' = null
    /\ cycles' = Append(cycles, [overtaken |-> FALSE])

RemoveAt(s, i) == [j \in 1..(Len(s) - 1) |-> IF j < i THEN s[j] ELSE s[j + 1]]

\* The cycles before position i have been overtaken by the one at i.
Overtake(s, i) ==
    RemoveAt([j \in 1..Len(s) |-> IF j < i THEN [s[j] EXCEPT !.overtaken = TRUE] ELSE s[j]], i)

\* useEffect: fetchData(); setInterval(fetchData, 30000)
Mount ==
    /\ session = "created"
    /\ session' = "mounted"
    /\ FetchDataStart
    /\ UNCHANGED <<activeConversations, completedConversations, scheduledInterviews,
                   attentionFlags, deleteStatus, resolveStatus, deleteCalls,
                   resolveCalls>>
    /\ lastFetch' = NoFetch
    /\ lastCall' = NoCall
    /\ UNCHANGED uploadVars

\* an interval that the cleanup of the effect does not clear
TimerTick_NotCleared ==
    /\ session # "created"
    /\ FetchDataStart
    /\ UNCHANGED <<session, activeConversations, completedConversations,
                   scheduledInterviews, attentionFlags, deleteStatus, resolveStatus,
                   deleteCalls, resolveCalls>>
    /\ lastFetch' = NoFetch
    /\ lastCall' = NoCall
    /\ UNCHANGED uploadVars

\* the interval fires while it has not been cleared
TimerTick ==
    /\ session = "mounted"
    /\ FetchDataStart
    /\ UNCHANGED <<session, activeConversations, completedConversations,
                   scheduledInterviews, attentionFlags, deleteStatus, resolveStatus,
                   deleteCalls, resolveCalls>>
    /\ lastFetch' = NoFetch
    /\ lastCall' = NoCall
    /\ UNCHANGED uploadVars

\* the "Refresh Data" button, rendered unless the error alert replaces the view
ClickRefresh ==
    /\ session = "mounted"
    /\ error = null
    /\ FetchDataStart
    /\ UNCHANGED <<session, activeConversations, completedConversations,
                   scheduledInterviews, attentionFlags, deleteStatus, resolveStatus,
                   deleteCalls, resolveCalls>>
    /\ lastFetch' = NoFetch
    /\ lastCall' = NoCall
    /\ UNCHANGED uploadVars

\* the effect's cleanup: clearInterval(interval).  Calls in flight are not cancelled.
Unmount ==
    /\ session = "mounted"
    /\ session' = "unmounted"
    /\ UNCHANGED <<activeConversations, completedConversations, scheduledInterviews,
                   attentionFlags, isLoading, error, deleteStatus, resolveStatus, cycles,
                   deleteCalls, resolveCalls>>
    /\ lastFetch' = NoFetch
    /\ lastCall' = NoCall
    /\ UNCHANGED uploadVars

\* fetchData with list calls that rethrow and no catch per call: one failing call
\* rejects Promise.all, and the cycle ends in the catch block without publishing
FetchDataComplete_AnyFailureRejects(i, oActive, oCompleted, oFlags, oScheduled) ==
    /\ i \in 1..Len(cycles)
    /\ IF oActive.ok /\ oCompleted.ok /\ oFlags.ok /\ oScheduled.ok /\ oFlags.data.isArray
       THEN /\ activeConversations' = oActive.data
            /\ completedConversations' = oCompleted.data
            /\ attentionFlags' = FilterFlags(oFlags.data.items)
            /\ scheduledInterviews' = oScheduled.data
            /\ error' = error
       ELSE /\ error' = FetchErrorMessage
            /\ UNCHANGED <<activeConversations, completedConversations, attentionFlags,
                           scheduledInterviews>>
    /\ isLoading' = FALSE
    /\ cycles' = Overtake(cycles, i)
    /\ lastFetch' = Fetched(cycles[i], lastCall, oActive, oCompleted, oFlags, oScheduled)
    /\ lastCall' = NoCall
    /\ UNCHANGED <<session, deleteStatus, resolveStatus, deleteCalls, resolveCalls>>
    /\ UNCHANGED uploadVars

\* fetchData that also drops the resolve status of the flags it no longer lists
FetchDataComplete_PrunesStatus(i, oActive, oCompleted, oFlags, oScheduled) ==
    LET flags == getAttentionFlags(oFlags)
        listed == {flags.items[j].id.v : j \in 1..Len(flags.items)}
    IN  /\ i \in 1..Len(cycles)
        /\ activeConversations' = getActiveConversations(oActive)
        /\ completedConversations' = getCompletedConversations(oCompleted)
        /\ IF flags.isArray
           THEN /\ attentionFlags' = FilterFlags(flags.items)
                /\ scheduledInterviews' = getScheduledInterviews(oScheduled)
                /\ resolveStatus' = [k \in DOMAIN resolveStatus \cap listed |-> resolveStatus[k]]
                /\ error' = error
           ELSE /\ attentionFlags' = attentionFlags
                /\ scheduledInterviews' = scheduledInterviews
                /\ resolveStatus' = resolveStatus
                /\ error' = FetchErrorMessage
        /\ isLoading' = FALSE
        /\ cycles' = Overtake(cycles, i)
        /\ lastFetch' = Fetched(cycles[i], lastCall, oActive, oCompleted, oFlags, oScheduled)
        /\ lastCall' = NoCall
        /\ UNCHANGED <<session, deleteStatus, deleteCalls, resolveCalls>>
        /\ UNCHANGED uploadVars

\* fetchData that treats the failure of all four list calls as its own failure
FetchDataComplete_AllFailedRejects(i, oActive, oCompleted, oFlags, oScheduled) ==
    LET flags == getAttentionFlags(oFlags)
        rejects == ~oActive.ok /\ ~oCompleted.ok /\ ~oFlags.ok /\ ~oScheduled.ok
    IN  /\ i \in 1..Len(cycles)
        /\ activeConversations' = getActiveConversations(oActive)
        /\ completedConversations' = getCompletedConversations(oCompleted)
        /\ IF flags.isArray
           THEN /\ attentionFlags' = FilterFlags(flags.items)
                /\ scheduledInterviews' = getScheduledInterviews(oScheduled)
                /\ error' = IF rejects THEN FetchErrorMessage ELSE error
           ELSE /\ attentionFlags' = attentionFlags
                /\ scheduledInterviews' = scheduledInterviews
                /\ error' = FetchErrorMessage
        /\ isLoading' = FALSE
        /\ cycles' = Overtake(cycles, i)
        /\ lastFetch' = Fetched(cycles[i], lastCall, oActive, oCompleted, oFlags, oScheduled)
        /\ lastCall' = NoCall
        /\ UNCHANGED <<session, deleteStatus, resolveStatus, deleteCalls, resolveCalls>>
        /\ UNCHANGED uploadVars

\* fetchData after its await: lines 59-75.  Promise.all never rejects, since each
\* list call returns [] on failure; what can throw is flags.filter, when the body
\* of the flags response is not an array.  The statements before the throw have run.
FetchDataComplete(i, oActive, oCompleted, oFlags, oScheduled) ==
    LET activeConvs == getActiveConversations(oActive)
        completedConvs == getCompletedConversations(oCompleted)
        flags == getAttentionFlags(oFlags)
        scheduled == getScheduledInterviews(oScheduled)
    IN  /\ i \in 1..Len(cycles)
        /\ activeConversations' = activeConvs
        /\ completedConversations' = completedConvs
        /\ IF flags.isArray
           THEN /\ attentionFlags' = FilterFlags(flags.items)
                /\ scheduledInterviews' = scheduled
                /\ error' = error
           ELSE /\ attentionFlags' = attentionFlags
                /\ scheduledInterviews' = scheduledInterviews
                /\ error' = FetchErrorMessage
        /\ isLoading' = FALSE
        /\ cycles' = Overtake(cycles, i)
        /\ lastFetch' = Fetched(cycles[i], lastCall, oActive, oCompleted, oFlags, oScheduled)
        /\ lastCall' = NoCall
        /\ UNCHANGED <<session, deleteStatus, resolveStatus, deleteCalls, resolveCalls>>
        /\ UNCHANGED uploadVars

FetchCompletes ==
    \E i \in 1..Len(cycles) :
      \E oActive \in Outcomes(ActivePayloads), oCompleted \in Outcomes(CompletedPayloads),
         oFlags \in Outcomes(FlagPayloads), oScheduled \in Outcomes(ScheduledPayloads) :
        FetchDataComplete(i, oActive, oCompleted, oFlags, oScheduled)

\* ids of the conversation cards on display (both tabs show a spinner while loading,
\* and the error alert replaces the whole view)
ShownConversations ==
    IF error # null \/ isLoading
    THEN {}
    ELSE {activeConversations[j].id : j \in 1..Len(activeConversations)}
         \cup {completedConversations[j].id : j \in 1..Len(completedConversations)}

NestedFlagIds(convs) ==
    UNION {{convs[j].attention_flags[n].id.v : n \in 1..Len(convs[j].attention_flags)}
           : j \in 1..Len(convs)}

\* ids of the flags that have a Resolve button on display
ShownFlags ==
    IF error # null \/ isLoading
    THEN {}
    ELSE {attentionFlags[j].id.v : j \in 1..Len(attentionFlags)}
         \cup NestedFlagIds(activeConversations)
         \cup NestedFlagIds(completedConversations)

\* handleDelete that removes the conversation from the lists when it is requested
ClickDelete_RemovesAtRequest(conversationId) ==
    /\ session = "mounted"
    /\ conversationId \in ShownConversations
    /\ StatusOf(deleteStatus, conversationId) # "deleting"
    /\ deleteStatus' = SetStatus(deleteStatus, conversationId, "deleting")
    /\ deleteCalls' = [deleteCalls EXCEPT ![conversationId] = @ + 1]
    /\ activeConversations' = WithoutConversation(activeConversations, conversationId)
    /\ completedConversations' = WithoutConversation(completedConversations, conversationId)
    /\ UNCHANGED <<session, scheduledInterviews, attentionFlags, isLoading, error,
                   resolveStatus, cycles, resolveCalls>>
    /\ lastFetch' = NoFetch
    /\ lastCall' = NoCall
    /\ UNCHANGED uploadVars

\* handleDelete up to its await (lines 78-81), from a delete button that is not disabled
ClickDelete(conversationId) ==
    /\ session = "mounted"
    /\ conversationId \in ShownConversations
    /\ StatusOf(deleteStatus, conversationId) # "deleting"
    /\ deleteStatus' = SetStatus(deleteStatus, conversationId, "deleting")
    /\ deleteCalls' = [deleteCalls EXCEPT ![conversationId] = @ + 1]
    /\ UNCHANGED <<session, activeConversations, completedConversations,
                   scheduledInterviews, attentionFlags, isLoading, error, resolveStatus,
                   cycles, resolveCalls>>
    /\ lastFetch' = NoFetch
    /\ lastCall' = NoCall
    /\ UNCHANGED uploadVars

\* handleDelete that calls fetchData after a successful delete
DeleteSucceeds_Refreshes(conversationId) ==
    /\ deleteCalls[conversationId] > 0
    /\ deleteCalls' = [deleteCalls EXCEPT ![conversationId] = @ - 1]
    /\ activeConversations' = WithoutConversation(activeConversations, conversationId)
    /\ completedConversations' = WithoutConversation(completedConversations, conversationId)
    /\ deleteStatus' = SetStatus(deleteStatus, conversationId, "success")
    /\ FetchDataStart
    /\ UNCHANGED <<session, scheduledInterviews, attentionFlags, resolveStatus,
                   resolveCalls>>
    /\ lastFetch' = NoFetch
    /\ lastCall' = Call("delete", conversationId, TRUE)
    /\ UNCHANGED uploadVars

\* handleDelete whose success abandons the fetchData runs suspended at their await
DeleteSucceeds_CancelsCycles(conversationId) ==
    /\ deleteCalls[conversationId] > 0
    /\ deleteCalls' = [deleteCalls EXCEPT ![conversationId] = @ - 1]
    /\ activeConversations' = WithoutConversation(activeConversations, conversationId)
    /\ completedConversations' = WithoutConversation(completedConversations, conversationId)
    /\ deleteStatus' = SetStatus(deleteStatus, conversationId, "success")
    /\ cycles' = <<>>
    /\ UNCHANGED <<session, scheduledInterviews, attentionFlags, isLoading, error,
                   resolveStatus, resolveCalls>>
    /\ lastFetch' = NoFetch
    /\ lastCall' = Call("delete", conversationId, TRUE)
    /\ UNCHANGED uploadVars

\* handleDelete whose success also drops the attention flags that refer to the
\* deleted conversation
DeleteSucceeds_CascadesToFlags(conversationId) ==
    /\ deleteCalls[conversationId] > 0
    /\ deleteCalls' = [deleteCalls EXCEPT ![conversationId] = @ - 1]
    /\ activeConversations' = WithoutConversation(activeConversations, conversationId)
    /\ completedConversations' = WithoutConversation(completedConversations, conversationId)
    /\ attentionFlags' = LET Keep(flag) == flag.conversation_id # Str(conversationId)
                         IN  SelectSeq(attentionFlags, Keep)
    /\ deleteStatus' = SetStatus(deleteStatus, conversationId, "success")
    /\ UNCHANGED <<session, scheduledInterviews, isLoading, error,
                   resolveStatus, cycles, resolveCalls>>
    /\ lastFetch' = NoFetch
    /\ lastCall' = Call("delete", conversationId, TRUE)
    /\ UNCHANGED uploadVars

\* handleDelete after deleteConversation resolved: lines 82-84
DeleteSucceeds(conversationId) ==
    /\ deleteCalls[conversationId] > 0
    /\ deleteCalls' = [deleteCalls EXCEPT ![conversationId] = @ - 1]
    /\ activeConversations' = WithoutConversation(activeConversations, conversationId)
    /\ completedConversations' = WithoutConversation(completedConversations, conversationId)
    /\ deleteStatus' = SetStatus(deleteStatus, conversationId, "success")
    /\ UNCHANGED <<session, scheduledInterviews, attentionFlags, isLoading, error,
                   resolveStatus, cycles, resolveCalls>>
    /\ lastFetch' = NoFetch
    /\ lastCall' = Call("delete", conversationId, TRUE)
    /\ UNCHANGED uploadVars

\* handleDelete whose catch block also raises the dashboard error
DeleteFails_RaisesError(conversationId) ==
    /\ deleteCalls[conversationId] > 0
    /\ deleteCalls' = [deleteCalls EXCEPT ![conversationId] = @ - 1]
    /\ deleteStatus' = SetStatus(deleteStatus, conversationId, "error")
    /\ error' = "Failed to delete conversation. Please try again."
    /\ UNCHANGED <<session, activeConversations, completedConversations,
                   scheduledInterviews, attentionFlags, isLoading, resolveStatus,
                   cycles, resolveCalls>>
    /\ lastFetch' = NoFetch
    /\ lastCall' = Call("delete", conversationId, FALSE)
    /\ UNCHANGED uploadVars

\* handleDelete after deleteConversation rejected: lines 85-89
DeleteFails(conversationId) ==
    /\ deleteCalls[conversationId] > 0
    /\ deleteCalls' = [deleteCalls EXCEPT ![conversationId] = @ - 1]
    /\ deleteStatus' = SetStatus(deleteStatus, conversationId, "error")
    /\ UNCHANGED <<session, activeConversations, completedConversations,
                   scheduledInterviews, attentionFlags, isLoading, error, resolveStatus,
                   cycles, resolveCalls>>
    /\ lastFetch' = NoFetch
    /\ lastCall' = Call("delete", conversationId, FALSE)
    /\ UNCHANGED uploadVars

\* handleResolveFlag from a nested Resolve button that is never disabled
ClickResolve_NestedNotDisabled(flagId) ==
    /\ session = "mounted"
    /\ flagId \in ShownFlags
    /\ \/ StatusOf(resolveStatus, flagId) # "resolving"
       \/ flagId \in NestedFlagIds(activeConversations)
    /\ resolveStatus' = SetStatus(resolveStatus, flagId, "resolving")
    /\ resolveCalls' = [resolveCalls EXCEPT ![flagId] = @ + 1]
    /\ UNCHANGED <<session, activeConversations, completedConversations,
                   scheduledInterviews, attentionFlags, isLoading, error, deleteStatus,
                   cycles, deleteCalls>>
    /\ lastFetch' = NoFetch
    /\ lastCall' = NoCall
    /\ UNCHANGED uploadVars

\* handleResolveFlag up to its await (lines 92-95), from a Resolve button that is not disabled
ClickResolve(flagId) ==
    /\ session = "mounted"
    /\ flagId \in ShownFlags
    /\ StatusOf(resolveStatus, flagId) # "resolving"
    /\ resolveStatus' = SetStatus(resolveStatus, flagId, "resolving")
    /\ resolveCalls' = [resolveCalls EXCEPT ![flagId] = @ + 1]
    /\ UNCHANGED <<session, activeConversations, completedConversations,
                   scheduledInterviews, attentionFlags, isLoading, error, deleteStatus,
                   cycles, deleteCalls>>
    /\ lastFetch' = NoFetch
    /\ lastCall' = NoCall
    /\ UNCHANGED uploadVars

\* handleResolveFlag that does not call fetchData after a successful resolve
ResolveSucceeds_NoRefresh(flagId) ==
    /\ resolveCalls[flagId] > 0
    /\ resolveCalls' = [resolveCalls EXCEPT ![flagId] = @ - 1]
    /\ resolveStatus' = SetStatus(resolveStatus, flagId, "success")
    /\ UNCHANGED <<session, activeConversations, completedConversations,
                   scheduledInterviews, attentionFlags, isLoading, error, cycles,
                   deleteStatus, deleteCalls>>
    /\ lastFetch' = NoFetch
    /\ lastCall' = Call("resolve", flagId, TRUE)
    /\ UNCHANGED uploadVars

\* handleResolveFlag after resolveAttentionFlag resolved: lines 96-98
ResolveSucceeds(flagId) ==
    /\ resolveCalls[flagId] > 0
    /\ resolveCalls' = [resolveCalls EXCEPT ![flagId] = @ - 1]
    /\ resolveStatus' = SetStatus(resolveStatus, flagId, "success")
    /\ FetchDataStart
    /\ UNCHANGED <<session, activeConversations, completedConversations,
                   scheduledInterviews, attentionFlags, deleteStatus, deleteCalls>>
    /\ lastFetch' = NoFetch
    /\ lastCall' = Call("resolve", flagId, TRUE)
    /\ UNCHANGED uploadVars

\* handleResolveFlag after resolveAttentionFlag rejected: lines 99-103
ResolveFails(flagId) ==
    /\ resolveCalls[flagId] > 0
    /\ resolveCalls' = [resolveCalls EXCEPT ![flagId] = @ - 1]
    /\ resolveStatus' = SetStatus(resolveStatus, flagId, "error")
    /\ UNCHANGED <<session, activeConversations, completedConversations,
                   scheduledInterviews, attentionFlags, isLoading, error, deleteStatus,
                   cycles, deleteCalls>>
    /\ lastFetch' = NoFetch
    /\ lastCall' = Call("resolve", flagId, FALSE)
    /\ UNCHANGED uploadVars

Next ==
    \/ Mount
    \/ TimerTick
    \/ ClickRefresh
    \/ Unmount
    \/ FetchCompletes
    \/ \E c \in ConvIds : ClickDelete(c)
    \/ \E c \in ConvIds : DeleteSucceeds(c)
    \/ \E c \in ConvIds : DeleteFails(c)
    \/ \E f \in FlagIds : ClickResolve(f)
    \/ \E f \in FlagIds : ResolveSucceeds(f)
    \/ \E f \in FlagIds : ResolveFails(f)

Spec == Init /\ [][Next]_vars

(***************************************************************************)
(* SchedulingInterface.                                                    *)
(***************************************************************************)
\* String.prototype.endsWith
\* String.prototype.includes in the place of endsWith
endsWith_Includes(name, suffix) ==
    \E k \in 1..Len(name) :
      /\ k + Len(suffix) - 1 <= Len(name)
      /\ SubSeq(name, k, k + Len(suffix) - 1) = suffix

\* String.prototype.endsWith
endsWith(name, suffix) ==
    /\ Len(name) >= Len(suffix)
    /\ SubSeq(name, Len(name) - Len(suffix) + 1, Len(name)) = suffix

\* x || fallback, for x a string or undefined: the empty string is falsy too
OrElse(x, fallback) ==
    IF typeof(x) = "string" /\ x.v # "" THEN x.v ELSE fallback

RECURSIVE join(_, _)
\* Array.prototype.join
join(parts, separator) ==
    IF Len(parts) = 0 THEN ""
    ELSE IF Len(parts) = 1 THEN parts[1]
    ELSE parts[1] \o separator \o join(Tail(parts), separator)

\* the message built from the error of every row, failed or not
PartialFailureMessage_AllRows(data) ==
    "Failed to initialize some conversations: "
    \o join([j \in 1..Len(data.results) |->
               OrElse(data.results[j].error, "Unknown error")], ", ")

\* lines 89-93: the message thrown when data.conversations_failed > 0
PartialFailureMessage(data) ==
    LET IsFailed(r) == r.status = "failed"
        failedResults == SelectSeq(data.results, IsFailed)
        errorMsg == join([j \in 1..Len(failedResults) |->
                            OrElse(failedResults[j].error, "Unknown error")], ", ")
    IN  "Failed to initialize some conversations: " \o errorMsg

\* handleDrag: lines 30-38
handleDrag(type) ==
    /\ dragActive' = IF type \in {"dragenter", "dragover"} THEN TRUE
                     ELSE IF type = "dragleave" THEN FALSE
                     ELSE dragActive
    /\ lastSubmit' = Event("drag", "")
    /\ UNCHANGED <<file, submissionStatus, errorMessage, uploads>>
    /\ UNCHANGED dashVars

\* handleDrop: lines 40-52.  droppedFile is NoFile when the drop carries no file.
handleDrop(droppedFile) ==
    /\ dragActive' = FALSE
    /\ IF ~droppedFile.isNull /\ endsWith(droppedFile.name, DotCsv)
       THEN /\ file' = droppedFile
            /\ errorMessage' = ""
       ELSE /\ errorMessage' = "Please upload a CSV file"
            /\ file' = file
    /\ lastSubmit' = Offered("drop", droppedFile)
    /\ UNCHANGED <<submissionStatus, uploads>>
    /\ UNCHANGED dashVars

\* handleFileChange: lines 54-65.  selectedFile is NoFile when the picker is cancelled.
handleFileChange(selectedFile) ==
    /\ IF ~selectedFile.isNull
       THEN IF endsWith(selectedFile.name, DotCsv)
            THEN /\ file' = selectedFile
                 /\ errorMessage' = ""
            ELSE /\ errorMessage' = "Please upload a CSV file"
                 /\ file' = NoFile
       ELSE UNCHANGED <<file, errorMessage>>
    /\ lastSubmit' = Offered("change", selectedFile)
    /\ UNCHANGED <<dragActive, submissionStatus, uploads>>
    /\ UNCHANGED dashVars

\* handleSubmit up to its await: lines 67-84.  The form's submit event; the call
\* is axios.post with the selected file.
handleSubmit ==
    /\ IF file.isNull
       THEN /\ errorMessage' = "Please select a file to upload"
            /\ UNCHANGED <<submissionStatus, uploads>>
       ELSE /\ Len(uploads) < MaxUploads
            /\ submissionStatus' = "submitting"
            /\ uploads' = Append(uploads, file)
            /\ UNCHANGED errorMessage
    /\ lastSubmit' = Event("submit", "")
    /\ UNCHANGED <<file, dragActive>>
    /\ UNCHANGED dashVars

\* handleSubmit that clears the selection whenever the exchange succeeded
UploadResponds_AlwaysClears(i, data) ==
    /\ i \in 1..Len(uploads)
    /\ uploads' = RemoveAt(uploads, i)
    /\ file' = NoFile
    /\ IF data.conversations_failed > 0
       THEN /\ errorMessage' = PartialFailureMessage(data)
            /\ submissionStatus' = "error"
            /\ lastSubmit' = Responded(data, "")
       ELSE /\ submissionStatus' = "success"
            /\ errorMessage' = errorMessage
            /\ lastSubmit' = Responded(data, "Successfully initialized "
                                       \o ToString(data.conversations_created)
                                       \o " conversations")
    /\ UNCHANGED dragActive
    /\ UNCHANGED dashVars

\* handleSubmit after axios.post resolved: lines 86-101, and lines 102-115 for the
\* Error thrown at line 93 (an Error that is no AxiosError: errorMsg = error.message)
UploadResponds(i, data) ==
    /\ i \in 1..Len(uploads)
    /\ uploads' = RemoveAt(uploads, i)
    /\ IF data.conversations_failed > 0
       THEN /\ errorMessage' = PartialFailureMessage(data)
            /\ submissionStatus' = "error"
            /\ file' = file
            /\ lastSubmit' = Responded(data, "")
       ELSE /\ submissionStatus' = "success"
            /\ file' = NoFile
            /\ errorMessage' = errorMessage
            /\ lastSubmit' = Responded(data, "Successfully initialized "
                                       \o ToString(data.conversations_created)
                                       \o " conversations")
    /\ UNCHANGED dragActive
    /\ UNCHANGED dashVars

\* handleSubmit whose catch block posts the file again
UploadFails_Retries(i, err) ==
    /\ i \in 1..Len(uploads)
    /\ uploads' = Append(RemoveAt(uploads, i), uploads[i])
    /\ errorMessage' = OrElse(err.dataError, err.message)
    /\ submissionStatus' = "submitting"
    /\ lastSubmit' = Event("failure", "")
    /\ UNCHANGED <<file, dragActive>>
    /\ UNCHANGED dashVars

\* handleSubmit after axios.post rejected: lines 102-115, the AxiosError branch
UploadFails(i, err) ==
    /\ i \in 1..Len(uploads)
    /\ uploads' = RemoveAt(uploads, i)
    /\ errorMessage' = OrElse(err.dataError, err.message)
    /\ submissionStatus' = "error"
    /\ lastSubmit' = Event("failure", "")
    /\ UNCHANGED <<file, dragActive>>
    /\ UNCHANGED dashVars

NextUpload ==
    \/ \E type \in {"dragenter", "dragover", "dragleave"} : handleDrag(type)
    \/ \E f \in Files \cup {NoFile} : handleDrop(f)
    \/ \E f \in Files \cup {NoFile} : handleFileChange(f)
    \/ handleSubmit
    \/ \E i \in 1..Len(uploads), data \in UploadResponses : UploadResponds(i, data)
    \/ \E i \in 1..Len(uploads), err \in UploadErrors : UploadFails(i, err)

SpecUpload == Init /\ [][NextUpload]_vars

(***************************************************************************)
(* The validation gate on its own: refresh cycles whose flags response is  *)
(* any sequence of at most MaxRecords raw records.                         *)
(***************************************************************************)
FMedium == RawObject(Str("f8"), Str("f7"), Str("declined"), Str("medium"), Str("2024-01-02"), Bool(TRUE))

RawRecords ==
    { F7, F7Resolved, FMedium, BadSeverity, NumericSeverity, NumericId, NoConversation,
      NoMessage, NumericDate, NoResolved, StringResolved, RawNull, RawString }

RawSequences == UNION {[1..n -> RawRecords] : n \in 0..MaxRecords}

\* the other three list calls all succeed or all fail
GateFetchCompletes ==
    \E items \in RawSequences, others \in BOOLEAN :
      \E oActive \in Outcomes(ActivePayloads), oCompleted \in Outcomes(CompletedPayloads),
         oScheduled \in Outcomes(ScheduledPayloads) :
        /\ oActive.ok = others /\ oCompleted.ok = others /\ oScheduled.ok = others
        /\ FetchDataComplete(1, oActive, oCompleted, Ok(Array(items)), oScheduled)

\* a refresh requested while no cycle is outstanding
GateRefresh == cycles = <<>> /\ ClickRefresh

NextGate ==
    \/ Mount
    \/ GateRefresh
    \/ GateFetchCompletes

SpecGate == Init /\ [][NextGate]_vars

(***************************************************************************)
(* Properties.                                                             *)
(***************************************************************************)
\* The schema of an attention flag: a non-null object with string id,
\* conversation_id, message and created_at, boolean resolved, and severity one of
\* low, medium, high.
Conforms(r) ==
    /\ r.t = "object"
    /\ ~r.isNull
    /\ \A field \in {"id", "conversation_id", "message", "created_at"} : r[field].t = "string"
    /\ r["resolved"].t = "boolean"
    /\ r["severity"] \in {Str("low"), Str("medium"), Str("high")}

RECURSIVE ConformingOf(_)
\* the conforming records of a sequence, in their original relative order
ConformingOf(items) ==
    IF items = <<>> THEN <<>>
    ELSE (IF Conforms(Head(items)) THEN <<Head(items)>> ELSE <<>>) \o ConformingOf(Tail(items))

ListCalls == {"active", "completed", "flags", "scheduled"}

FailedCalls(fetch) == {call \in ListCalls : ~fetch[call].ok}

\* what a collection holds when it equals what its call returned: the data of the
\* response, or the empty sequence when the call failed
Returned(outcome) == IF outcome.ok THEN outcome.data ELSE <<>>

\* C1 as stated: when exactly one of the four list calls of a refresh cycle fails,
\* the cycle publishes, the other three collections equal the results their calls
\* returned and the collection of the failing call is the empty sequence.
C1_OneFailureAsStated ==
    (lastFetch.done /\ Cardinality(FailedCalls(lastFetch)) = 1)
    => /\ activeConversations = Returned(lastFetch.active)
       /\ completedConversations = Returned(lastFetch.completed)
       /\ scheduledInterviews = Returned(lastFetch.scheduled)
       /\ attentionFlags = IF lastFetch.flags.ok THEN lastFetch.flags.data.items ELSE <<>>

\* C1 amended: when exactly one of the four list calls of a refresh cycle fails and
\* the body of the flags response (if that call succeeded) is an array, the cycle
\* publishes: the two conversation collections and the scheduled interviews equal
\* the results their calls returned, the attention flags equal the conforming
\* records of the flags result in their order, and the collection of the failing
\* call is the empty sequence, whatever it held before.
C1_OneFailureStillPublishes ==
    (/\ lastFetch.done
     /\ Cardinality(FailedCalls(lastFetch)) = 1
     /\ (lastFetch.flags.ok => lastFetch.flags.data.isArray))
    => /\ activeConversations = Returned(lastFetch.active)
       /\ completedConversations = Returned(lastFetch.completed)
       /\ scheduledInterviews = Returned(lastFetch.scheduled)
       /\ attentionFlags = IF lastFetch.flags.ok
                           THEN ConformingOf(lastFetch.flags.data.items)
                           ELSE <<>>
       /\ ~isLoading

\* a cycle in which only the active-conversations call failed has published: the
\* active collection is empty and the other three hold their results
C1_Witness ==
    /\ lastFetch.done
    /\ FailedCalls(lastFetch) = {"active"}
    /\ lastFetch.flags.data.isArray
    /\ activeConversations = <<>>
    /\ completedConversations # <<>>
    /\ scheduledInterviews # <<>>
    /\ attentionFlags # <<>>

\* C2: the validation step of a refresh cycle yields exactly the conforming records
\* of the flags result, in their original relative order, without raising the
\* dashboard error; every record of the attention-flags collection conforms.
C2_ValidationGate ==
    /\ \A j \in 1..Len(attentionFlags) : Conforms(attentionFlags[j])
    /\ (lastFetch.done /\ lastFetch.flags.ok /\ lastFetch.flags.data.isArray)
       => /\ attentionFlags = ConformingOf(lastFetch.flags.data.items)
          /\ error = null

\* a cycle has published a flags result of which one record was dropped and one kept
C2_Witness ==
    /\ lastFetch.done
    /\ lastFetch.flags.ok
    /\ Len(lastFetch.flags.data.items) = 2
    /\ Len(attentionFlags) = 1

\* C3 as stated: a refresh cycle ends either with all four collections replaced by
\* its results and no error raised, or with the dashboard error set and none of
\* the four collections changed.
C3_AllOrNothing ==
    [][lastFetch'.done =>
         \/ /\ activeConversations' = Returned(lastFetch'.active)
            /\ completedConversations' = Returned(lastFetch'.completed)
            /\ scheduledInterviews' = Returned(lastFetch'.scheduled)
            /\ lastFetch'.flags.ok => lastFetch'.flags.data.isArray
            /\ attentionFlags' = IF lastFetch'.flags.ok
                                 THEN ConformingOf(lastFetch'.flags.data.items)
                                 ELSE <<>>
            /\ error' = error
         \/ /\ error' # null
            /\ UNCHANGED <<activeConversations, completedConversations,
                           scheduledInterviews, attentionFlags>>]_vars

IdsOf(convs) == {convs[j].id : j \in 1..Len(convs)}

FlagIdsOf(flags) == {flags[j].id.v : j \in 1..Len(flags)}

\* C4: in the state a successful delete of conversation c leaves, the delete status
\* of c is succeeded and no conversation with id c is in the active or in the
\* completed collection; no refresh cycle has published in that step.
C4_DeleteRemovesFromBoth ==
    \A c \in ConvIds :
      lastCall = Call("delete", c, TRUE)
      => /\ StatusOf(deleteStatus, c) = "success"
         /\ c \notin IdsOf(activeConversations)
         /\ c \notin IdsOf(completedConversations)
         /\ ~lastFetch.done

\* the delete of c1, listed twice as active and once as completed, has succeeded:
\* what is left of the two payloads is the conversation f7
C4_Witness ==
    /\ lastCall = Call("delete", "c1", TRUE)
    /\ activeConversations = <<Conv("f7", <<>>)>>
    /\ completedConversations = <<Conv("f7", <<>>)>>

StatusKeys == ({"delete"} \X ConvIds) \cup ({"resolve"} \X FlagIds)

StatusIn(deletes, resolves, key) ==
    IF key[1] = "delete" THEN StatusOf(deletes, key[2]) ELSE StatusOf(resolves, key[2])

\* C5: a step changes the status of at most one key (operation kind, entity id),
\* and a control on display whose own key is not in-flight can be used whatever
\* the status of the other keys.
C5_StatusKeysIndependent ==
    [][/\ Cardinality({key \in StatusKeys :
                         StatusIn(deleteStatus', resolveStatus', key)
                         # StatusIn(deleteStatus, resolveStatus, key)}) <= 1
       /\ \A c \in ConvIds :
            (/\ session = "mounted"
             /\ c \in ShownConversations
             /\ StatusOf(deleteStatus, c) # "deleting") => ENABLED ClickDelete(c)
       /\ \A f \in FlagIds :
            (/\ session = "mounted"
             /\ f \in ShownFlags
             /\ StatusOf(resolveStatus, f) # "resolving") => ENABLED ClickResolve(f)]_vars

\* the delete of conversation f7 has failed while the resolve of flag f7 (the same
\* identifier string) and the delete of c1 are in flight
C5_Witness ==
    /\ lastCall = Call("delete", "f7", FALSE)
    /\ StatusOf(deleteStatus, "f7") = "error"
    /\ StatusOf(resolveStatus, "f7") = "resolving"
    /\ StatusOf(deleteStatus, "c1") = "deleting"

\* C6: the step in which a resolve call for flag f succeeds sets the resolve status
\* of f to succeeded and starts exactly one refresh cycle, leaving the flags
\* collection as it was; the flags collection changes only in a step in which a
\* refresh cycle completes.
C6_ResolveSuccessRefreshes ==
    [][/\ \A f \in FlagIds :
            lastCall' = Call("resolve", f, TRUE)
            => /\ StatusOf(resolveStatus', f) = "success"
               /\ Len(cycles') = Len(cycles) + 1
               /\ isLoading'
               /\ attentionFlags' = attentionFlags
       /\ attentionFlags' # attentionFlags => lastFetch'.done]_vars

\* the resolve of f7 has succeeded: a refresh cycle is outstanding and the flag is
\* still listed, unresolved
C6_Witness ==
    /\ lastCall = Call("resolve", "f7", TRUE)
    /\ StatusOf(resolveStatus, "f7") = "success"
    /\ Len(cycles) = 1
    /\ \E j \in 1..Len(attentionFlags) : attentionFlags[j] = F7

\* C7: the step in which a delete or resolve call fails sets the status of that
\* key to failed and changes nothing else: the four collections, the dashboard
\* error, the loading flag, the outstanding refresh cycles and the status of
\* every other key stay as they were.
C7_FailureChangesNothingElse ==
    [][(lastCall'.op # "none" /\ ~lastCall'.ok)
       => /\ StatusIn(deleteStatus', resolveStatus', <<lastCall'.op, lastCall'.id>>)
             = "error"
          /\ \A key \in StatusKeys \ {<<lastCall'.op, lastCall'.id>>} :
               StatusIn(deleteStatus', resolveStatus', key)
               = StatusIn(deleteStatus, resolveStatus, key)
          /\ UNCHANGED <<activeConversations, completedConversations,
                         scheduledInterviews, attentionFlags, error, isLoading,
                         cycles, session>>]_vars

\* the delete of c1 has failed and c1 is still listed
C7_Witness ==
    /\ lastCall = Call("delete", "c1", FALSE)
    /\ StatusOf(deleteStatus, "c1") = "error"
    /\ "c1" \in IdsOf(activeConversations)
    /\ "c1" \in IdsOf(completedConversations)

\* C8: no step removes a key from a status map; a step in which a refresh cycle
\* completes changes no status, and raises no dashboard error when the flags
\* result is an array; a status changes only when an action on its own key is
\* requested or settles; a failed status stays failed until a request for the
\* same key makes it in-flight.
C8_StatusMapOnlyGrows ==
    [][/\ DOMAIN deleteStatus \subseteq DOMAIN deleteStatus'
       /\ DOMAIN resolveStatus \subseteq DOMAIN resolveStatus'
       /\ lastFetch'.done
          => /\ deleteStatus' = deleteStatus
             /\ resolveStatus' = resolveStatus
             /\ getAttentionFlags(lastFetch'.flags).isArray => error' = error
       /\ \A key \in StatusKeys :
            LET before == StatusIn(deleteStatus, resolveStatus, key)
                after == StatusIn(deleteStatus', resolveStatus', key)
            IN  /\ after # before
                   => \/ after \in {"deleting", "resolving"}
                      \/ lastCall' \in {Call(key[1], key[2], TRUE), Call(key[1], key[2], FALSE)}
                /\ before = "error" => after \in {"error", "deleting", "resolving"}]_vars

\* flag f7 was resolved and a later cycle has published a flags result without it:
\* its status is still in the map and no dashboard error is raised
C8_Witness ==
    /\ lastFetch.done
    /\ lastFetch.flags.ok
    /\ lastFetch.flags.data.isArray
    /\ "f7" \notin FlagIdsOf(attentionFlags)
    /\ StatusOf(resolveStatus, "f7") = "success"
    /\ error = null

\* the last four characters of a name are . c s v
EndsInCsv(name) ==
    /\ Len(name) >= 4
    /\ name[Len(name) - 3] = "."
    /\ name[Len(name) - 2] = "c"
    /\ name[Len(name) - 1] = "s"
    /\ name[Len(name)] = "v"

\* C9: after every step the selected file is none or has a name ending in .csv,
\* and every bulk-upload call made carries a file whose name ends in .csv; a drop
\* or a picker selection of a file whose name does not end in .csv sets the error
\* message "Please upload a CSV file" and makes no call.
C9_OnlyCsvIsUploaded ==
    [][/\ file'.isNull \/ EndsInCsv(file'.name)
       /\ \A i \in 1..Len(uploads') : ~uploads'[i].isNull /\ EndsInCsv(uploads'[i].name)
       /\ (/\ lastSubmit'.op \in {"drop", "change"}
           /\ ~lastSubmit'.offered.isNull
           /\ ~EndsInCsv(lastSubmit'.offered.name))
          => /\ errorMessage' = "Please upload a CSV file"
             /\ uploads' = uploads
             /\ file' # lastSubmit'.offered]_vars

\* a.txt is dropped while a.csv is selected and its upload is in flight
C9_Witness ==
    /\ lastSubmit = Offered("drop", File(<<"a", ".", "t", "x", "t">>))
    /\ errorMessage = "Please upload a CSV file"
    /\ file = File(<<"a", ".", "c", "s", "v">>)
    /\ uploads = <<File(<<"a", ".", "c", "s", "v">>)>>

\* C10: a submit with a file selected makes one bulk-upload call, with that file;
\* a submit with no file selected makes none, sets the error message and leaves
\* the submission status and the selection as they were; the step that handles a
\* response or a failure ends that call and makes no other; no other step makes
\* a call.
C10_OneCallPerSubmit ==
    [][/\ lastSubmit'.op = "submit"
          => IF file.isNull
             THEN /\ uploads' = uploads
                  /\ errorMessage' = "Please select a file to upload"
                  /\ UNCHANGED <<submissionStatus, file, dragActive>>
             ELSE uploads' = Append(uploads, file)
       /\ lastSubmit'.op \in {"response", "failure"} => Len(uploads') = Len(uploads) - 1
       /\ lastSubmit'.op # "submit" => Len(uploads') <= Len(uploads)]_vars

\* the one call of a submit has failed: the file is still selected, the status is
\* error and no call is in flight
C10_Witness ==
    /\ lastSubmit.op = "failure"
    /\ ~file.isNull
    /\ submissionStatus = "error"
    /\ uploads = <<>>

\* the texts of the failed rows of a response, one after the other with ", "
\* between two of them; "Unknown error" for a failed row with no text
RECURSIVE FailedTexts(_)
FailedTexts(rows) ==
    IF rows = <<>> THEN ""
    ELSE LET row == Head(rows)
             rest == FailedTexts(Tail(rows))
             text == IF row.error = Undefined \/ row.error = Str("")
                     THEN "Unknown error" ELSE row.error.v
         IN  IF row.status # "failed" THEN rest
             ELSE IF rest = "" THEN text
             ELSE text \o ", " \o rest

\* C11: in the state the handling of a response with a failed count above 0
\* leaves, the error message is "Failed to initialize some conversations: "
\* followed by the error texts of the rows with status failed, in response order,
\* joined by ", ", with "Unknown error" for a failed row without text, and the
\* submission status is error.
C11_AggregateMessage ==
    (lastSubmit.op = "response" /\ lastSubmit.data.conversations_failed > 0)
    => /\ errorMessage = "Failed to initialize some conversations: "
                         \o FailedTexts(lastSubmit.data.results)
       /\ submissionStatus = "error"

\* three rows of which only the second failed; the first, successful, row carries
\* an error text of its own, which is not in the message
C11_Witness ==
    /\ lastSubmit.op = "response"
    /\ lastSubmit.data.conversations_created = 2
    /\ lastSubmit.data.conversations_failed = 1
    /\ Len(lastSubmit.data.results) = 3
    /\ lastSubmit.data.results[1] = Row("success", Str("stale"))
    /\ errorMessage = "Failed to initialize some conversations: bad email"
    /\ submissionStatus = "error"

\* text t occurs in text s
Mentions(s, t) ==
    \E k \in 1..(Len(s) - Len(t) + 1) : SubSeq(s, k, k + Len(t) - 1) = t

\* C12 as stated: in the state the handling of a response with a failed count
\* above 0 leaves, what the operator is shown (the error message or the alert)
\* carries the conversations_created value of the response.
C12_CreatedCountReported ==
    (lastSubmit.op = "response" /\ lastSubmit.data.conversations_failed > 0)
    => \/ Mentions(errorMessage, ToString(lastSubmit.data.conversations_created))
       \/ Mentions(lastSubmit.alert, ToString(lastSubmit.data.conversations_created))

\* C13: the step that handles a response with failed count 0 clears the selected
\* file and alerts "Successfully initialized <created> conversations"; the step
\* that handles a response with a failed count above 0, or a failure of the
\* call, leaves the selected file as it was and raises no alert; no other step of
\* a submit changes the selected file.
C13_ClearedOnlyOnFullSuccess ==
    [][/\ (lastSubmit'.op = "response" /\ lastSubmit'.data.conversations_failed = 0)
          => /\ file' = NoFile
             /\ submissionStatus' = "success"
             /\ lastSubmit'.alert = "Successfully initialized "
                                    \o ToString(lastSubmit'.data.conversations_created)
                                    \o " conversations"
       /\ (lastSubmit'.op = "response" /\ lastSubmit'.data.conversations_failed > 0)
          => file' = file /\ lastSubmit'.alert = ""
       /\ lastSubmit'.op \in {"submit", "failure"}
          => file' = file /\ lastSubmit'.alert = ""]_vars

\* a response with two conversations created and none failed has been handled
C13_Witness ==
    /\ lastSubmit.op = "response"
    /\ lastSubmit.data.conversations_created = 2
    /\ lastSubmit.data.conversations_failed = 0
    /\ lastSubmit.alert = "Successfully initialized 2 conversations"
    /\ file = NoFile
    /\ submissionStatus = "success"

\* C14 as stated: the step that handles a response with failed count 0 starts one
\* refresh cycle of the dashboard, and the step that handles any other response
\* or a failure starts none.
C14_SuccessResynchronizes ==
    [][lastSubmit'.op \in {"response", "failure"}
       => IF lastSubmit'.op = "response" /\ lastSubmit'.data.conversations_failed = 0
          THEN Len(cycles') = Len(cycles) + 1
          ELSE cycles' = cycles]_vars

\* C15: a successful delete leaves the suspended refresh cycles suspended, every
\* one of them can complete in the next step, and the cycle that completes
\* publishes the conversations its calls returned whatever the delete statuses
\* are; a conversation with delete status succeeded leaves the active collection
\* only when a cycle publishes or a delete of it succeeds again.
C15_StaleCycleOverwritesDelete ==
    /\ [](/\ \A i \in 1..Len(cycles) :
               \A oActive \in Outcomes(ActivePayloads) :
                 ENABLED FetchDataComplete(i, oActive, Failure, Failure, Failure)
          /\ lastFetch.done
             => /\ activeConversations = Returned(lastFetch.active)
                /\ completedConversations = Returned(lastFetch.completed))
    /\ [][/\ \A c \in ConvIds :
               /\ lastCall' = Call("delete", c, TRUE) => cycles' = cycles
               /\ (/\ StatusOf(deleteStatus, c) = "success"
                   /\ c \in IdsOf(activeConversations)
                   /\ c \notin IdsOf(activeConversations'))
                  => lastFetch'.done \/ lastCall' = Call("delete", c, TRUE)]_vars

\* the delete of c1 succeeded while a cycle was suspended, and that cycle has
\* published in the next step: c1 is listed again with its delete status succeeded
C15_Witness ==
    /\ lastFetch.done
    /\ lastFetch.raced = {"c1"}
    /\ StatusOf(deleteStatus, "c1") = "success"
    /\ "c1" \in IdsOf(activeConversations)
    /\ "c1" \in IdsOf(completedConversations)

\* C16: while the dashboard is mounted a timer tick can start a cycle whether or
\* not earlier cycles are suspended, and so can an operator refresh and a
\* successful resolve; every suspended cycle can be the next to complete; in the
\* state a cycle leaves that completes with an array of flags after a cycle that
\* started later has published, the collections hold the results of that older
\* cycle.
C16_CyclesNotSerialized ==
    /\ (session = "mounted" /\ Len(cycles) < MaxCycles)
       => /\ ENABLED TimerTick
          /\ error = null => ENABLED ClickRefresh
    /\ \A f \in FlagIds :
         (resolveCalls[f] > 0 /\ Len(cycles) < MaxCycles) => ENABLED ResolveSucceeds(f)
    /\ \A i \in 1..Len(cycles) :
         ENABLED FetchDataComplete(i, Failure, Failure, Failure, Failure)
    /\ (lastFetch.done /\ lastFetch.overtaken /\ getAttentionFlags(lastFetch.flags).isArray)
       => /\ activeConversations = Returned(lastFetch.active)
          /\ completedConversations = Returned(lastFetch.completed)
          /\ scheduledInterviews = Returned(lastFetch.scheduled)
          /\ attentionFlags = IF lastFetch.flags.ok
                              THEN ConformingOf(lastFetch.flags.data.items)
                              ELSE <<>>

\* a cycle has published after a cycle that started later: the collections hold
\* the results of the older cycle
C16_Witness ==
    /\ lastFetch.done
    /\ lastFetch.overtaken
    /\ lastFetch.flags.ok
    /\ lastFetch.flags.data.isArray
    /\ activeConversations # <<>>
    /\ activeConversations = lastFetch.active.data
    /\ scheduledInterviews = lastFetch.scheduled.data

\* a step of a delete or resolve action: a call is issued or settles
ActionStep == deleteCalls' # deleteCalls \/ resolveCalls' # resolveCalls

\* the conversations of a list other than those with id c, in their order
RECURSIVE Except(_, _)
Except(convs, c) ==
    IF convs = <<>> THEN <<>>
    ELSE (IF Head(convs).id = c THEN <<>> ELSE <<Head(convs)>>) \o Except(Tail(convs), c)

\* C17 as stated: a collection changes only in the step in which a refresh cycle
\* completes, a status changes only in a step of a delete or resolve action, no
\* step of a delete or resolve action changes a collection and no step of a
\* refresh cycle changes a status.
C17_SingleWriter ==
    [][/\ <<activeConversations, completedConversations, scheduledInterviews,
            attentionFlags>>' # <<activeConversations, completedConversations,
                                  scheduledInterviews, attentionFlags>>
          => lastFetch'.done
       /\ <<deleteStatus, resolveStatus>>' # <<deleteStatus, resolveStatus>>
          => ActionStep
       /\ ActionStep
          => UNCHANGED <<activeConversations, completedConversations,
                         scheduledInterviews, attentionFlags>>
       /\ lastFetch'.done => UNCHANGED <<deleteStatus, resolveStatus>>]_vars

\* C17 amended: the scheduled interviews and the attention flags change only in
\* the step in which a refresh cycle completes; the active and the completed
\* conversations change only in such a step or in the step in which a delete call
\* succeeds, which removes the conversations with the deleted id and nothing
\* else; a status changes only in a step of a delete or resolve action; the
\* request of a delete, a failed delete and every step of a resolve change no
\* collection, and the completion of a refresh cycle changes no status.
C17_WritersOfState ==
    [][/\ <<scheduledInterviews, attentionFlags>>' # <<scheduledInterviews, attentionFlags>>
          => lastFetch'.done
       /\ <<activeConversations, completedConversations>>'
          # <<activeConversations, completedConversations>>
          => lastFetch'.done \/ (lastCall'.op = "delete" /\ lastCall'.ok)
       /\ (lastCall'.op = "delete" /\ lastCall'.ok)
          => /\ activeConversations' = Except(activeConversations, lastCall'.id)
             /\ completedConversations' = Except(completedConversations, lastCall'.id)
       /\ <<deleteStatus, resolveStatus>>' # <<deleteStatus, resolveStatus>>
          => ActionStep
       /\ (ActionStep /\ ~(lastCall'.op = "delete" /\ lastCall'.ok))
          => UNCHANGED <<activeConversations, completedConversations,
                         scheduledInterviews, attentionFlags>>
       /\ lastFetch'.done => UNCHANGED <<deleteStatus, resolveStatus>>]_vars

\* the delete of c1 has succeeded: c1 is out of the active conversations, f7 is
\* still in them, and the scheduled interviews and the attention flags are as the
\* last cycle published them
C17_Witness ==
    /\ lastCall = Call("delete", "c1", TRUE)
    /\ IdsOf(activeConversations) = {"f7"}
    /\ scheduledInterviews # <<>>
    /\ attentionFlags # <<>>

\* C18 as stated: the step in which a delete call or a resolve call succeeds
\* starts a refresh cycle.
C18_EverySuccessResynchronizes ==
    [][(lastCall'.op # "none" /\ lastCall'.ok)
       => Len(cycles') = Len(cycles) + 1]_vars

\* C18 amended: the step in which a resolve call succeeds starts one refresh
\* cycle; the step in which a delete call succeeds starts none and leaves the
\* suspended cycles and the loading flag as they were.
C18_OnlyResolveResynchronizes ==
    [][/\ (lastCall'.op = "resolve" /\ lastCall'.ok)
          => Len(cycles') = Len(cycles) + 1 /\ isLoading'
       /\ (lastCall'.op = "delete" /\ lastCall'.ok)
          => cycles' = cycles /\ isLoading' = isLoading
       /\ Len(cycles') > Len(cycles) => lastCall'.op # "delete"]_vars

\* the delete of c1 has succeeded and no refresh cycle is outstanding
C18_Witness ==
    /\ lastCall = Call("delete", "c1", TRUE)
    /\ StatusOf(deleteStatus, "c1") = "success"
    /\ cycles = <<>>
    /\ ~isLoading

\* C19: at most one call is outstanding per key, and one is outstanding exactly
\* while the status of the key is in-flight; a control on display can be used
\* exactly while the status of its key is not in-flight; the step that issues a
\* call sets the status of its key to in-flight.
C19_OneCallPerKey ==
    /\ [](/\ \A c \in ConvIds :
               /\ deleteCalls[c] <= 1
               /\ deleteCalls[c] = 1 <=> StatusOf(deleteStatus, c) = "deleting"
               /\ (session = "mounted" /\ c \in ShownConversations)
                  => (ENABLED ClickDelete(c) <=> StatusOf(deleteStatus, c) # "deleting")
          /\ \A f \in FlagIds :
               /\ resolveCalls[f] <= 1
               /\ resolveCalls[f] = 1 <=> StatusOf(resolveStatus, f) = "resolving"
               /\ (session = "mounted" /\ f \in ShownFlags)
                  => (ENABLED ClickResolve(f) <=> StatusOf(resolveStatus, f) # "resolving"))
    /\ [][/\ \A c \in ConvIds :
               deleteCalls'[c] > deleteCalls[c]
               => StatusOf(deleteStatus', c) = "deleting"
          /\ \A f \in FlagIds :
               resolveCalls'[f] > resolveCalls[f]
               => StatusOf(resolveStatus', f) = "resolving"]_vars

\* the resolve of f7 is in flight while f7 is on display both as a flag of its own
\* and under a conversation
C19_Witness ==
    /\ session = "mounted"
    /\ ~isLoading
    /\ error = null
    /\ "f7" \in FlagIdsOf(attentionFlags)
    /\ "f7" \in NestedFlagIds(activeConversations)
    /\ resolveCalls["f7"] = 1
    /\ StatusOf(resolveStatus, "f7") = "resolving"

\* C20 as stated: in the state a refresh cycle leaves in which one or more of the
\* list calls failed and the flags result is an array (so nothing else throws),
\* the dashboard error is cleared and the four collections hold the results.
C20_ListFailuresKeepErrorCleared ==
    (/\ lastFetch.done
     /\ FailedCalls(lastFetch) # {}
     /\ getAttentionFlags(lastFetch.flags).isArray)
    => /\ error = null
       /\ activeConversations = Returned(lastFetch.active)
       /\ completedConversations = Returned(lastFetch.completed)
       /\ scheduledInterviews = Returned(lastFetch.scheduled)
       /\ attentionFlags = IF lastFetch.flags.ok
                           THEN ConformingOf(lastFetch.flags.data.items)
                           ELSE <<>>

\* C20 amended: the step in which a refresh cycle completes with an array of
\* flags, whatever number of its list calls failed, publishes the four results and
\* leaves the dashboard error as it was before the step; the dashboard error
\* becomes set only in the step in which a cycle completes with a flags result
\* that is no array.
C20_ListFailuresRaiseNoError ==
    /\ []((lastFetch.done /\ getAttentionFlags(lastFetch.flags).isArray)
          => /\ activeConversations = Returned(lastFetch.active)
             /\ completedConversations = Returned(lastFetch.completed)
             /\ scheduledInterviews = Returned(lastFetch.scheduled)
             /\ attentionFlags = IF lastFetch.flags.ok
                                 THEN ConformingOf(lastFetch.flags.data.items)
                                 ELSE <<>>)
    /\ [][/\ (lastFetch'.done /\ getAttentionFlags(lastFetch'.flags).isArray)
             => error' = error
          /\ (error' # null /\ error' # error)
             => lastFetch'.done /\ ~getAttentionFlags(lastFetch'.flags).isArray]_vars

\* a cycle in which all four list calls failed has published four empty
\* collections and no dashboard error is set
C20_Witness ==
    /\ lastFetch.done
    /\ FailedCalls(lastFetch) = ListCalls
    /\ error = null
    /\ ~isLoading
    /\ activeConversations = <<>>
    /\ attentionFlags = <<>>

\* C21: the interval fires only between mount and unmount: no timer tick can
\* start a cycle before the mount or after the unmount; the mount starts the
\* first refresh cycle, and the session only goes from created to mounted and
\* from mounted to unmounted; the unmount leaves the suspended cycles and the
\* outstanding delete and resolve calls as they were, and after it every one of
\* them can still complete.
C21_TimerLivesWithSession ==
    /\ [](/\ session # "mounted" => ~ENABLED TimerTick
          /\ session = "created" => cycles = <<>>
          /\ session = "unmounted"
             => /\ \A i \in 1..Len(cycles) :
                     ENABLED FetchDataComplete(i, Failure, Failure, Failure, Failure)
                /\ \A c \in ConvIds :
                     deleteCalls[c] > 0 => ENABLED DeleteSucceeds(c) /\ ENABLED DeleteFails(c)
                /\ \A f \in FlagIds :
                     resolveCalls[f] > 0 => ENABLED ResolveFails(f))
    /\ [][session' # session
          => \/ /\ session = "created"
                /\ session' = "mounted"
                /\ Len(cycles') = 1
                /\ isLoading'
             \/ /\ session = "mounted"
                /\ session' = "unmounted"
                /\ UNCHANGED <<cycles, deleteCalls, resolveCalls>>]_vars

\* a refresh cycle that was suspended when the dashboard was unmounted has
\* completed after the unmount, while a delete call is still outstanding
C21_Witness ==
    /\ session = "unmounted"
    /\ lastFetch.done
    /\ deleteCalls["c1"] = 1

\* The calls made through the api instance carry its 30-second timeout, so each
\* of them settles: a refresh cycle's list calls complete, and a delete or resolve
\* call succeeds or fails.  The bulk-upload call is made with the bare axios
\* import, which sets no timeout: nothing makes it settle.
Timeouts ==
    /\ WF_vars(FetchCompletes)
    /\ \A c \in ConvIds : WF_vars(DeleteSucceeds(c) \/ DeleteFails(c))
    /\ \A f \in FlagIds : WF_vars(ResolveSucceeds(f) \/ ResolveFails(f))

SpecLive == Spec /\ Timeouts

SpecUploadLive == SpecUpload /\ Timeouts

\* the dashboard's calls: an in-flight delete or resolve leaves the in-flight
\* status, and outstanding refresh cycles lead to a completed one
DashboardCallsSettle ==
    /\ \A c \in ConvIds :
         (StatusOf(deleteStatus, c) = "deleting") ~> (StatusOf(deleteStatus, c) # "deleting")
    /\ \A f \in FlagIds :
         (StatusOf(resolveStatus, f) = "resolving")
         ~> (StatusOf(resolveStatus, f) # "resolving")
    /\ (cycles # <<>>) ~> lastFetch.done

\* C22 as stated: no call stays outstanding forever: an in-flight delete, resolve
\* or bulk upload eventually leaves its in-flight status, and outstanding refresh
\* cycles eventually complete.
C22_EveryCallSettles ==
    /\ DashboardCallsSettle
    /\ (submissionStatus = "submitting") ~> (submissionStatus # "submitting")

\* C23: the step that starts a refresh cycle sets the loading flag and clears the
\* dashboard error; in the state a completing cycle leaves the loading flag is
\* reset, whether the cycle published or raised the dashboard error; while the
\* dashboard is mounted with the error raised, a timer tick can start a cycle.
C23_NeverStuck ==
    /\ [](/\ lastFetch.done => ~isLoading
          /\ (session = "mounted" /\ error # null /\ Len(cycles) < MaxCycles)
             => ENABLED TimerTick)
    /\ [][Len(cycles') > Len(cycles) => isLoading' /\ error' = null]_vars

\* a cycle has ended on the error path: the error is raised, the loading flag is
\* reset and no cycle is outstanding
C23_Witness ==
    /\ session = "mounted"
    /\ lastFetch.done
    /\ lastFetch.flags.ok
    /\ ~lastFetch.flags.data.isArray
    /\ error = FetchErrorMessage
    /\ ~isLoading
    /\ cycles = <<>>

\* C24 as stated: while a refresh cycle is outstanding the loading flag is true.
C24_LoadingWhileOutstanding == cycles # <<>> => isLoading

\* C25 as stated: after the unmount no step starts a refresh cycle.
C25_NoCycleAfterSessionEnd ==
    [][session = "unmounted" => Len(cycles') <= Len(cycles)]_vars

\* C26: the step in which the delete of conversation c succeeds leaves in each
\* conversation list the conversations with another id, in their relative order,
\* and leaves the scheduled interviews and the attention flags as they were, the
\* flags that refer to c included; when c is in neither list, the step changes no
\* collection.
C26_DeleteRemovesOnlyTarget ==
    [][\A c \in ConvIds :
         lastCall' = Call("delete", c, TRUE)
         => /\ activeConversations' = Except(activeConversations, c)
            /\ completedConversations' = Except(completedConversations, c)
            /\ UNCHANGED <<scheduledInterviews, attentionFlags>>
            /\ \A j \in 1..Len(attentionFlags) :
                 attentionFlags[j].conversation_id = Str(c)
                 => attentionFlags'[j] = attentionFlags[j]
            /\ c \notin (IdsOf(activeConversations) \cup IdsOf(completedConversations))
               => UNCHANGED <<activeConversations, completedConversations>>]_vars

\* the delete of c1 has succeeded: f7 is what is left of the completed
\* conversations, and a flag that refers to c1 is still in the flags
C26_Witness ==
    /\ lastCall = Call("delete", "c1", TRUE)
    /\ completedConversations = <<Conv("f7", <<>>)>>
    /\ \E j \in 1..Len(attentionFlags) : attentionFlags[j].conversation_id = Str("c1")

\* C27 as stated: submission status 'success' implies an empty error message.
C27_SuccessShowsNoError == submissionStatus = "success" => errorMessage = ""

\* C28 as stated: in the state the handling of a response leaves, the status is
\* 'success' if and only if no row of the response has status "failed".
C28_StatusFollowsRows ==
    lastSubmit.op = "response"
    => (submissionStatus = "success"
        <=> \A j \in 1..Len(lastSubmit.data.results) :
              lastSubmit.data.results[j].status # "failed")

\* C29 as stated: in the state the offer of a file whose name does not end in
\* ".csv" leaves, by the file picker or by a drop, no file is selected.
C29_RejectionClearsSelection ==
    (/\ lastSubmit.op \in {"drop", "change"}
     /\ lastSubmit.offered # NoFile
     /\ ~EndsInCsv(lastSubmit.offered.name))
    => file = NoFile

====
